---- MODULE Spec2Model ----
(***************************************************************************)
(* Model of decoder.js: the base-8 letter/octal encoder (encodeBase8), the *)
(* base-8 decoder (decodeBase8), the base-N decoder (decodeBase12) and the *)
(* decode button's click handler that dispatches between the two decoders. *)
(*                                                                         *)
(* A JavaScript string is a sequence of UTF-16 code units, so a string is  *)
(* modelled as a sequence of naturals (its char codes).  Array and string  *)
(* indices of the source are 0-based; TLA+ sequences are 1-based, so       *)
(* source index k is element k+1.                                          *)
(***************************************************************************)
EXTENDS Integers, Sequences, FiniteSets, TLC

\* ------------------------------------------------------------------------
\* Bounds of the model
\* ------------------------------------------------------------------------
\* longest plain text drawn over TextChars
MaxLen == 3
\* largest number of pieces a typed note string is built from
MaxPieces == 3
\* single-character texts cover every char code below this
MaxCode == 144

\* ------------------------------------------------------------------------
\* Characters the source names
\* ------------------------------------------------------------------------
SP == 32
NL == 10
SLASH == 47
QM == 63
CodeA == 65
ZERO == 48

\* JavaScript's undefined, as an array element or a missing token.  It is
\* kept apart from every string by a code no string contains.
Undefined == <<-1>>

\* NaN, as parseInt(undefined, 8) and as an index no array has
NaN == -1

\* ------------------------------------------------------------------------
\* String helpers (String.prototype.trim / split, Array.prototype.join)
\* ------------------------------------------------------------------------
\* the characters matched by \s and removed by trim()
WhiteSpace ==
  {9, 10, 11, 12, 13, 32, 160, 5760, 8232, 8233, 8239, 8287, 12288, 65279}
    \cup (8192 .. 8202)

IsSpace(c) == c \in WhiteSpace

RECURSIVE TrimStart(_)
TrimStart(s) ==
  IF s = <<>> THEN <<>>
  ELSE IF IsSpace(Head(s)) THEN TrimStart(Tail(s)) ELSE s

RECURSIVE TrimEnd(_)
TrimEnd(s) ==
  IF s = <<>> THEN <<>>
  ELSE IF IsSpace(s[Len(s)]) THEN TrimEnd(SubSeq(s, 1, Len(s) - 1)) ELSE s

\* s.trim()
Trim(s) == TrimEnd(TrimStart(s))

\* s.split('\n'): every newline separates; "" splits to [""]
RECURSIVE SplitOn(_, _, _, _, _)
SplitOn(s, sep, k, cur, acc) ==
  IF k > Len(s) THEN Append(acc, cur)
  ELSE IF s[k] = sep THEN SplitOn(s, sep, k + 1, <<>>, Append(acc, cur))
  ELSE SplitOn(s, sep, k + 1, Append(cur, s[k]), acc)

SplitNL(s) == SplitOn(s, NL, 1, <<>>, <<>>)

\* s.split(/\s+/): every maximal run of whitespace separates; "" splits
\* to [""], a leading or trailing run leaves an empty string at that end
RECURSIVE SplitRuns(_, _, _, _)
SplitRuns(s, k, cur, acc) ==
  IF k > Len(s) THEN Append(acc, cur)
  ELSE IF IsSpace(s[k])
       THEN IF k > 1 /\ IsSpace(s[k - 1])
            THEN SplitRuns(s, k + 1, cur, acc)
            ELSE SplitRuns(s, k + 1, <<>>, Append(acc, cur))
       ELSE SplitRuns(s, k + 1, Append(cur, s[k]), acc)

SplitWs(s) == SplitRuns(s, 1, <<>>, <<>>)

\* arr.filter(t => t.length > 0)
NonEmpty(ts) == SelectSeq(ts, LAMBDA t : Len(t) > 0)

\* arr.join(sep): undefined elements are joined as the empty string
RECURSIVE JoinWith(_, _)
JoinWith(ts, sep) ==
  IF ts = <<>> THEN <<>>
  ELSE LET h == IF Head(ts) = Undefined THEN <<>> ELSE Head(ts)
       IN IF Len(ts) = 1 THEN h ELSE h \o sep \o JoinWith(Tail(ts), sep)

\* the tokens of an encoding joined by single spaces
JoinTokens(ts) == JoinWith(ts, <<SP>>)

\* how many times c occurs in s
Count(c, s) == Cardinality({k \in 1 .. Len(s) : s[k] = c})

\* ------------------------------------------------------------------------
\* Cipher configurations (cipherConfigs[cipherKey], supplied by the page)
\* ------------------------------------------------------------------------
\* "C","D","E","F","G","A","B","H"
Notes8 ==
  << <<67>>, <<68>>, <<69>>, <<70>>, <<71>>, <<65>>, <<66>>, <<72>> >>

\* "C","C#","D","D#","E","F","F#","G","G#","A","A#","B"
Notes12 ==
  << <<67>>, <<67, 35>>, <<68>>, <<68, 35>>, <<69>>, <<70>>, <<70, 35>>,
     <<71>>, <<71, 35>>, <<65>>, <<65, 35>>, <<66>> >>

Configs ==
  { [type |-> t, notes |-> n] : t \in {"base8", "base12"}, n \in {Notes8, Notes12} }

\* notes[idx]: undefined when idx is NaN or past the end of the array
NoteAt(notes, idx) ==
  IF idx \in 0 .. (Len(notes) - 1) THEN notes[idx + 1] ELSE Undefined

\* ------------------------------------------------------------------------
\* encodeBase8
\* ------------------------------------------------------------------------
\* /[A-Za-z]/.test(ch)
IsLetter(ch) == ch \in (65 .. 90) \cup (97 .. 122)

\* ch.toUpperCase(), for the characters the letter test lets through
ToUpperCase(ch) == IF ch \in 97 .. 122 THEN ch - 32 ELSE ch

\* s.toUpperCase() for a string of ASCII characters
UpperStr(s) == [k \in 1 .. Len(s) |-> ToUpperCase(s[k])]

\* the letter branch without toUpperCase(): a lower-case letter gets an
\* index past 25 and is dropped
EncodeLetterNoUpper(notes, ch) ==
  LET idx == ch - CodeA
  IN IF idx >= 0 /\ idx < 26
     THEN << NoteAt(notes, idx \div 8), NoteAt(notes, idx % 8) >>
     ELSE <<>>

\* the letter branch: idx = upper(ch) - 65, hi = floor(idx / 8), lo = idx % 8
EncodeLetter(notes, ch) ==
  LET idx == ToUpperCase(ch) - CodeA
  IN IF idx >= 0 /\ idx < 26
     THEN << NoteAt(notes, idx \div 8), NoteAt(notes, idx % 8) >>
     ELSE <<>>

\* code.toString(8)
RECURSIVE ToOctal(_)
ToOctal(n) ==
  IF n < 8 THEN << ZERO + n >> ELSE Append(ToOctal(n \div 8), ZERO + (n % 8))

\* s.padStart(3, '0')
RECURSIVE PadStart3(_)
PadStart3(s) == IF Len(s) >= 3 THEN s ELSE PadStart3(<<ZERO>> \o s)

\* parseInt(oct[j], 8): oct[j] is undefined past the end, which parses to NaN
ParseOctDigit(oct, j) ==
  IF j < Len(oct) /\ oct[j + 1] \in ZERO .. (ZERO + 7) THEN oct[j + 1] - ZERO ELSE NaN

\* for (j = 0; j < oct.length; j += 2) push(notes[hi], notes[lo])
RECURSIVE OctalPairs(_, _, _)
OctalPairs(notes, oct, j) ==
  IF j >= Len(oct) THEN <<>>
  ELSE << NoteAt(notes, ParseOctDigit(oct, j)),
          NoteAt(notes, ParseOctDigit(oct, j + 1)) >>
       \o OctalPairs(notes, oct, j + 2)

\* the branch of every other character
EncodeOctal(notes, ch) == OctalPairs(notes, PadStart3(ToOctal(ch)), 0)

\* the encoder without its space sentinel: a space takes the octal branch
EncodeCharNoSentinel(notes, ch) ==
  IF ch = NL THEN << <<NL>> >>
  ELSE IF IsLetter(ch) THEN EncodeLetter(notes, ch)
  ELSE EncodeOctal(notes, ch)

\* the tokens pushed for one character of the text
EncodeChar(notes, ch) ==
  IF ch = SP THEN << <<SLASH>> >>
  ELSE IF ch = NL THEN << <<NL>> >>
  ELSE IF IsLetter(ch) THEN EncodeLetter(notes, ch)
  ELSE EncodeOctal(notes, ch)

RECURSIVE EncodeFrom(_, _, _)
EncodeFrom(notes, text, k) ==
  IF k > Len(text) THEN <<>>
  ELSE EncodeChar(notes, text[k]) \o EncodeFrom(notes, text, k + 1)

encodeBase8(cfg, text) == EncodeFrom(cfg.notes, text, 1)

\* ------------------------------------------------------------------------
\* Encoder of the base-N path: hi = code / B, lo = code % B, one pair per
\* character, the pairs separated by spaces
\* ------------------------------------------------------------------------
RECURSIVE EncodeNFrom(_, _, _)
EncodeNFrom(notes, text, k) ==
  IF k > Len(text) THEN <<>>
  ELSE << NoteAt(notes, text[k] \div Len(notes)),
          NoteAt(notes, text[k] % Len(notes)) >>
       \o EncodeNFrom(notes, text, k + 1)

encodeBaseN(cfg, text) == EncodeNFrom(cfg.notes, text, 1)

\* the encoder fails on a character whose code does not fit two digits
FitsBaseN(cfg, text) ==
  \A k \in 1 .. Len(text) : text[k] < Len(cfg.notes) * Len(cfg.notes)

\* ------------------------------------------------------------------------
\* Shared by both decoders
\* ------------------------------------------------------------------------
\* noteMap[tok] === undefined: tok is no key of noteMap at all
NoEntry == -1

\* noteMap[tok] is a function or object noteMap inherits from
\* Object.prototype: neither undefined nor a number
Inherited == -2

\* "__proto__": assigning a number to it is ignored, reading it gives
\* Object.prototype
ProtoKey == <<95, 95, 112, 114, 111, 116, 111, 95, 95>>

\* the other members noteMap = {} inherits from Object.prototype:
\* constructor, toString, toLocaleString, valueOf, hasOwnProperty,
\* isPrototypeOf, propertyIsEnumerable, __defineGetter__, __defineSetter__,
\* __lookupGetter__, __lookupSetter__
ProtoMembers ==
  { <<99, 111, 110, 115, 116, 114, 117, 99, 116, 111, 114>>,
    <<116, 111, 83, 116, 114, 105, 110, 103>>,
    <<116, 111, 76, 111, 99, 97, 108, 101, 83, 116, 114, 105, 110, 103>>,
    <<118, 97, 108, 117, 101, 79, 102>>,
    <<104, 97, 115, 79, 119, 110, 80, 114, 111, 112, 101, 114, 116, 121>>,
    <<105, 115, 80, 114, 111, 116, 111, 116, 121, 112, 101, 79, 102>>,
    <<112, 114, 111, 112, 101, 114, 116, 121, 73, 115, 69, 110, 117, 109, 101, 114, 97, 98, 108, 101>>,
    <<95, 95, 100, 101, 102, 105, 110, 101, 71, 101, 116, 116, 101, 114, 95, 95>>,
    <<95, 95, 100, 101, 102, 105, 110, 101, 83, 101, 116, 116, 101, 114, 95, 95>>,
    <<95, 95, 108, 111, 111, 107, 117, 112, 71, 101, 116, 116, 101, 114, 95, 95>>,
    <<95, 95, 108, 111, 111, 107, 117, 112, 83, 101, 116, 116, 101, 114, 95, 95>> }

\* noteMap[tok] after config.notes.forEach((note, i) => noteMap[note] = i):
\* the last index holding tok; for a token that is no note, the inherited
\* member of that name if there is one, undefined otherwise
NoteMap(notes, tok) ==
  LET at == {k \in 1 .. Len(notes) : notes[k] = tok}
  IN IF tok = ProtoKey THEN Inherited
     ELSE IF at # {} THEN (CHOOSE k \in at : \A m \in at : m <= k) - 1
     ELSE IF tok \in ProtoMembers THEN Inherited
     ELSE NoEntry

\* noteMap[hiTok] * base + noteMap[loTok] for two values that are not
\* undefined: with an inherited function or object on either side the
\* product is NaN or the sum a string that is no numeral, and either way
\* the result compares and converts as NaN
PairVal(hi, lo, base) ==
  IF hi = Inherited \/ lo = Inherited THEN NaN ELSE hi * base + lo

\* tokens[i]: undefined past the end
TokAt(tokens, i) ==
  IF i \in 0 .. (Len(tokens) - 1) THEN tokens[i + 1] ELSE Undefined

\* !tok: undefined and the empty string are falsy
Falsy(tok) == tok = Undefined \/ tok = <<>>

\* String.fromCharCode(code)
FromCharCode(code) == IF code = NaN THEN 0 ELSE code % 65536

\* ------------------------------------------------------------------------
\* decodeBase8
\* ------------------------------------------------------------------------
\* the line split of decodeBase12 used in decodeBase8
Lines8Trimmed(noteStr) == SplitNL(Trim(noteStr))

\* noteStr.split('\n')
Lines8(noteStr) == SplitNL(noteStr)

\* line.trim().split(/\s+/).filter(t => t.length > 0)
Tokens8(line) == NonEmpty(SplitWs(Trim(line)))

\* the character appended for a pair of tokens that are both present
PairChar8(notes, hiTok, loTok) ==
  IF NoteMap(notes, hiTok) = NoEntry \/ NoteMap(notes, loTok) = NoEntry THEN QM
  ELSE LET val == PairVal(NoteMap(notes, hiTok), NoteMap(notes, loTok), 8)
       IN IF val # NaN /\ val >= 0 /\ val < 26 THEN FromCharCode(CodeA + val) ELSE QM

\* the walk with a semantically malformed pair ending the line
WalkStep8BadBreaks(notes, tokens, i) ==
  IF TokAt(tokens, i) = <<SLASH>>
  THEN [app |-> <<SP>>, i |-> i + 1, brk |-> FALSE]
  ELSE IF Falsy(TokAt(tokens, i)) \/ Falsy(TokAt(tokens, i + 1))
  THEN [app |-> <<QM>>, i |-> i, brk |-> TRUE]
  ELSE IF PairChar8(notes, TokAt(tokens, i), TokAt(tokens, i + 1)) = QM
  THEN [app |-> <<QM>>, i |-> i, brk |-> TRUE]
  ELSE [app |-> << PairChar8(notes, TokAt(tokens, i), TokAt(tokens, i + 1)) >>,
        i |-> i + 2, brk |-> FALSE]

\* the walk with an unmatched last token dropped without a placeholder
WalkStep8DropsDangling(notes, tokens, i) ==
  IF TokAt(tokens, i) = <<SLASH>>
  THEN [app |-> <<SP>>, i |-> i + 1, brk |-> FALSE]
  ELSE IF Falsy(TokAt(tokens, i)) \/ Falsy(TokAt(tokens, i + 1))
  THEN [app |-> <<>>, i |-> i, brk |-> TRUE]
  ELSE [app |-> << PairChar8(notes, TokAt(tokens, i), TokAt(tokens, i + 1)) >>,
        i |-> i + 2, brk |-> FALSE]

\* the walk with a pair advancing the index by one: the low token is read
\* again as the next high token
WalkStep8RereadsLo(notes, tokens, i) ==
  IF TokAt(tokens, i) = <<SLASH>>
  THEN [app |-> <<SP>>, i |-> i + 1, brk |-> FALSE]
  ELSE IF Falsy(TokAt(tokens, i)) \/ Falsy(TokAt(tokens, i + 1))
  THEN [app |-> <<QM>>, i |-> i, brk |-> TRUE]
  ELSE [app |-> << PairChar8(notes, TokAt(tokens, i), TokAt(tokens, i + 1)) >>,
        i |-> i + 1, brk |-> FALSE]

\* one iteration of the token walk at index i < tokens.length: the text it
\* appends to out, the index it leaves, and whether it breaks out of the loop
WalkStep8(notes, tokens, i) ==
  IF TokAt(tokens, i) = <<SLASH>>
  THEN [app |-> <<SP>>, i |-> i + 1, brk |-> FALSE]
  ELSE IF Falsy(TokAt(tokens, i)) \/ Falsy(TokAt(tokens, i + 1))
  THEN [app |-> <<QM>>, i |-> i, brk |-> TRUE]
  ELSE [app |-> << PairChar8(notes, TokAt(tokens, i), TokAt(tokens, i + 1)) >>,
        i |-> i + 2, brk |-> FALSE]

\* the whole walk of one line's tokens from index i
RECURSIVE Walk8(_, _, _)
Walk8(notes, tokens, i) ==
  IF i >= Len(tokens) THEN <<>>
  ELSE LET s == WalkStep8(notes, tokens, i)
       IN IF s.brk THEN s.app ELSE s.app \o Walk8(notes, tokens, s.i)

\* lines.forEach((line, li) => { if (li > 0) out += '\n'; ... })
RECURSIVE DecodeLines8(_, _, _)
DecodeLines8(notes, lines, li) ==
  IF li >= Len(lines) THEN <<>>
  ELSE (IF li > 0 THEN <<NL>> ELSE <<>>)
       \o Walk8(notes, Tokens8(lines[li + 1]), 0)
       \o DecodeLines8(notes, lines, li + 1)

decodeBase8(cfg, noteStr) == DecodeLines8(cfg.notes, Lines8(noteStr), 0)

\* ------------------------------------------------------------------------
\* decodeBase12
\* ------------------------------------------------------------------------
\* noteStr.trim().split('\n')
Lines12(noteStr) == SplitNL(Trim(noteStr))

\* line.trim().split(/\s+/)
Tokens12(line) == SplitWs(Trim(line))

\* the pair arithmetic of decodeBase8 used in decodeBase12
PairChar12Base8(notes, hiTok, loTok) ==
  IF Falsy(hiTok) \/ Falsy(loTok) THEN QM
  ELSE IF NoteMap(notes, hiTok) = NoEntry \/ NoteMap(notes, loTok) = NoEntry THEN QM
  ELSE FromCharCode(PairVal(NoteMap(notes, hiTok), NoteMap(notes, loTok), 8))

\* the character appended for tokens[i], tokens[i+1]
PairChar12(notes, hiTok, loTok) ==
  IF Falsy(hiTok) \/ Falsy(loTok) THEN QM
  ELSE IF NoteMap(notes, hiTok) = NoEntry \/ NoteMap(notes, loTok) = NoEntry THEN QM
  ELSE FromCharCode(PairVal(NoteMap(notes, hiTok), NoteMap(notes, loTok), Len(notes)))

\* for (let i = 0; i < tokens.length; i += 2)
RECURSIVE Walk12(_, _, _)
Walk12(notes, tokens, i) ==
  IF i >= Len(tokens) THEN <<>>
  ELSE << PairChar12(notes, TokAt(tokens, i), TokAt(tokens, i + 1)) >>
       \o Walk12(notes, tokens, i + 2)

RECURSIVE DecodeLines12(_, _, _)
DecodeLines12(notes, lines, li) ==
  IF li >= Len(lines) THEN <<>>
  ELSE (IF li > 0 THEN <<NL>> ELSE <<>>)
       \o Walk12(notes, Tokens12(lines[li + 1]), 0)
       \o DecodeLines12(notes, lines, li + 1)

decodeBase12(cfg, noteStr) == DecodeLines12(cfg.notes, Lines12(noteStr), 0)

\* ------------------------------------------------------------------------
\* Inputs
\* ------------------------------------------------------------------------
\* every string over S of length at most n
Strs(S, n) == UNION { [1 .. m -> S] : m \in 0 .. n }

\* 'H', 'I', 'z', ' ', '\n', '1'
TextChars == {72, 73, 122, SP, NL, 49}

\* plain texts: every single character below MaxCode, two characters
\* beyond Latin-1's letters, and every string over TextChars
Texts ==
  Strs(TextChars, MaxLen) \cup { <<c>> : c \in 0 .. (MaxCode - 1) }
    \cup { <<233>>, <<8364>> }

\* a token no alphabet has
Unknown == <<88>>

\* "valueOf": a token no alphabet has, naming a member of Object.prototype
ProtoToken == <<118, 97, 108, 117, 101, 79, 102>>

\* what a typed note string is put together from: a pair decoding to a
\* letter, a pair whose value is out of the letters' range, a single note,
\* an unknown token, a token naming an inherited member, the space
\* sentinel, a line break and a blank
Pieces(notes) ==
  { notes[1] \o <<SP>> \o notes[8] \o <<SP>>,
    notes[4] \o <<SP>> \o notes[8] \o <<SP>>,
    notes[2] \o <<SP>>,
    Unknown \o <<SP>>,
    ProtoToken \o <<SP>>,
    <<SLASH, SP>>,
    <<NL>>,
    <<SP>> }

RECURSIVE Concat(_)
Concat(ss) == IF ss = <<>> THEN <<>> ELSE Head(ss) \o Concat(Tail(ss))

NoteStrs(notes) == { Concat(ps) : ps \in Strs(Pieces(notes), MaxPieces) }

\* ------------------------------------------------------------------------
\* State
\* ------------------------------------------------------------------------
VARIABLES
  config,     \* cipherConfigs[cipherKey]
  origin,     \* "text": the input is an encoding of text; "typed": typed in
  text,       \* the plain text given to the encoder
  toks,       \* the token array the encoder returned
  inputText,  \* the value of the input field
  lines,      \* decodeBase8: lines
  li,         \* decodeBase8: index of the line being decoded
  tokens,     \* decodeBase8: tokens of that line
  i,          \* decodeBase8: index of the token walk
  out,        \* decodeBase8: out
  result,     \* the decoder's return value, shown as the output
  pc          \* "encode", "click", "line", "walk", "done"

vars ==
  << config, origin, text, toks, inputText, lines, li, tokens, i, out, result, pc >>

Init ==
  /\ config \in Configs
  /\ \/ /\ origin = "text"
        /\ text \in Texts
        /\ inputText = <<>>
        /\ pc = "encode"
     \/ /\ origin = "typed"
        /\ text = <<>>
        /\ inputText \in NoteStrs(config.notes)
        /\ pc = "click"
  /\ toks = <<>>
  /\ lines = <<>>
  /\ li = 0
  /\ tokens = <<>>
  /\ i = 0
  /\ out = <<>>
  /\ result = <<>>

\* encodeBase8(config, text), its tokens joined by single spaces
Encode8 ==
  /\ pc = "encode"
  /\ config.type = "base8"
  /\ toks' = encodeBase8(config, text)
  /\ inputText' = JoinTokens(toks')
  /\ pc' = "click"
  /\ UNCHANGED << config, origin, text, lines, li, tokens, i, out, result >>

\* the base-N encoding of a text every character of which fits two digits
EncodeN ==
  /\ pc = "encode"
  /\ config.type = "base12"
  /\ FitsBaseN(config, text)
  /\ toks' = encodeBaseN(config, text)
  /\ inputText' = JoinTokens(toks')
  /\ pc' = "click"
  /\ UNCHANGED << config, origin, text, lines, li, tokens, i, out, result >>

\* click on the decode button, config.type === 'base12'
ClickBase12 ==
  /\ pc = "click"
  /\ config.type = "base12"
  /\ result' = decodeBase12(config, inputText)
  /\ pc' = "done"
  /\ UNCHANGED << config, origin, text, toks, inputText, lines, li, tokens, i, out >>

\* click on the decode button, any other type: decodeBase8 is entered
ClickBase8 ==
  /\ pc = "click"
  /\ config.type # "base12"
  /\ lines' = Lines8(inputText)
  /\ li' = 0
  /\ out' = <<>>
  /\ pc' = "line"
  /\ UNCHANGED << config, origin, text, toks, inputText, tokens, i, result >>

\* decodeBase8: the forEach callback is entered for line li
LineBegin ==
  /\ pc = "line"
  /\ li < Len(lines)
  /\ out' = out \o (IF li > 0 THEN <<NL>> ELSE <<>>)
  /\ tokens' = Tokens8(lines[li + 1])
  /\ i' = 0
  /\ pc' = "walk"
  /\ UNCHANGED << config, origin, text, toks, inputText, lines, li, result >>

\* decodeBase8: one iteration of the token walk
WalkIter ==
  /\ pc = "walk"
  /\ i < Len(tokens)
  /\ LET s == WalkStep8(config.notes, tokens, i)
     IN /\ out' = out \o s.app
        /\ IF s.brk
           THEN /\ pc' = "line"
                /\ li' = li + 1
                /\ i' = i
           ELSE /\ pc' = "walk"
                /\ li' = li
                /\ i' = s.i
  /\ UNCHANGED << config, origin, text, toks, inputText, lines, tokens, result >>

\* decodeBase8: the walk ran past the last token
LineEnd ==
  /\ pc = "walk"
  /\ i >= Len(tokens)
  /\ li' = li + 1
  /\ pc' = "line"
  /\ UNCHANGED << config, origin, text, toks, inputText, lines, tokens, i, out, result >>

\* decodeBase8: return out
Return8 ==
  /\ pc = "line"
  /\ li >= Len(lines)
  /\ result' = out
  /\ pc' = "done"
  /\ UNCHANGED << config, origin, text, toks, inputText, lines, li, tokens, i, out >>

Next ==
  \/ Encode8
  \/ EncodeN
  \/ ClickBase12
  \/ ClickBase8
  \/ LineBegin
  \/ WalkIter
  \/ LineEnd
  \/ Return8

Spec == Init /\ [][Next]_vars

\* the stepwise walk returns what decodeBase8 computes
StepwiseAgrees ==
  (pc = "done" /\ config.type # "base12") => result = decodeBase8(config, inputText)

\* ------------------------------------------------------------------------
\* Vocabulary of the properties
\* ------------------------------------------------------------------------
\* the text went through encodeBase8 and decodeBase8 and has come back
RoundTrip8Done == pc = "done" /\ origin = "text" /\ config.type = "base8"

\* decodeBase8 has returned
Decode8Done == pc = "done" /\ config.type = "base8"

\* the symbols of the alphabet
NoteSet(notes) == { notes[k] : k \in 1 .. Len(notes) }

OnlyLetters(s) == \A k \in 1 .. Len(s) : IsLetter(s[k])

OnlyLettersAndBlanks(s) ==
  \A k \in 1 .. Len(s) : IsLetter(s[k]) \/ s[k] = SP \/ s[k] = NL

\* the number of tokens a letter, a space or a newline is encoded to
Width(ch) == IF ch = SP \/ ch = NL THEN 1 ELSE 2

\* where the encoding of the k-th character starts in the token sequence
RECURSIVE TokPos(_, _)
TokPos(s, k) == IF k = 1 THEN 1 ELSE TokPos(s, k - 1) + Width(s[k - 1])

\* the ASCII digits and punctuation marks
IsDigitOrPunct(ch) ==
  ch \in (33 .. 47) \cup (48 .. 57) \cup (58 .. 64) \cup (91 .. 96) \cup (123 .. 126)

\* the walk of decodeBase8 stands at a pair that is semantically malformed
BadPair(notes, ts, k) ==
  /\ k + 1 < Len(ts)
  /\ TokAt(ts, k) # <<SLASH>>
  /\ \/ TokAt(ts, k) \notin NoteSet(notes)
     \/ TokAt(ts, k + 1) \notin NoteSet(notes)
     \/ PairVal(NoteMap(notes, TokAt(ts, k)), NoteMap(notes, TokAt(ts, k + 1)), 8)
          \notin 0 .. 25

\* a left-to-right walk of ts ends at a last token that is not '/' and has
\* no partner
RECURSIVE Dangles(_)
Dangles(ts) ==
  IF ts = <<>> THEN FALSE
  ELSE IF Head(ts) = <<SLASH>> THEN Dangles(Tail(ts))
  ELSE IF Len(ts) = 1 THEN TRUE
  ELSE Dangles(SubSeq(ts, 3, Len(ts)))

\* the whitespace-separated tokens of a line
WsTokens(line) == NonEmpty(SplitWs(line))

\* a line of 2k tokens, all of them notes
WellFormed12(notes, line) ==
  /\ Len(WsTokens(line)) % 2 = 0
  /\ \A k \in 1 .. Len(WsTokens(line)) : WsTokens(line)[k] \in NoteSet(notes)

\* the numeric value of a symbol of the alphabet: its index in notes
NoteIndex(notes, tok) == (CHOOSE k \in 1 .. Len(notes) : notes[k] = tok) - 1

\* the k characters such a line stands for
Expected12(notes, line) ==
  [j \in 1 .. (Len(WsTokens(line)) \div 2) |->
     NoteIndex(notes, WsTokens(line)[2 * j - 1]) * Len(notes)
       + NoteIndex(notes, WsTokens(line)[2 * j])]

RECURSIVE ExpectedLines12(_, _, _)
ExpectedLines12(notes, ls, k) ==
  IF k > Len(ls) THEN <<>>
  ELSE (IF k > 1 THEN <<NL>> ELSE <<>>)
       \o Expected12(notes, ls[k]) \o ExpectedLines12(notes, ls, k + 1)

\* ------------------------------------------------------------------------
\* Properties
\* ------------------------------------------------------------------------

\* C1: letter round trip.  For every text made only of ASCII letters, the
\* decoding of its space-joined encoding is the text in upper case; "HI"
\* encodes to notes[0], notes[7], notes[1], notes[0].
LetterRoundTrip ==
  /\ (RoundTrip8Done /\ OnlyLetters(text)) => result = UpperStr(text)
  /\ (pc # "encode" /\ origin = "text" /\ config.type = "base8" /\ text = <<72, 73>>)
       => toks = << config.notes[1], config.notes[8], config.notes[2], config.notes[1] >>

LetterRoundTripWitness ==
  /\ RoundTrip8Done
  /\ text = <<72, 73>>
  /\ result = <<72, 73>>

\* C2: space and newline fidelity.  For every text of letters, spaces and
\* newlines the encoder emits one '/' per space and one line-break token per
\* newline, each at the position of its character, and the decoding of the
\* space-joined tokens is the text in upper case, blanks in place.
BlankFidelity ==
  (pc # "encode" /\ origin = "text" /\ config.type = "base8" /\ OnlyLettersAndBlanks(text))
    => /\ \A k \in 1 .. Len(text) :
            /\ text[k] = SP => TokAt(toks, TokPos(text, k) - 1) = <<SLASH>>
            /\ text[k] = NL => TokAt(toks, TokPos(text, k) - 1) = <<NL>>
       /\ Len(toks) = TokPos(text, Len(text) + 1) - 1
       /\ Count(<<SLASH>>, toks) = Count(SP, text)
       /\ Count(<<NL>>, toks) = Count(NL, text)
       /\ pc = "done" => result = UpperStr(text)

BlankFidelityWitness ==
  /\ RoundTrip8Done
  /\ text = <<SP, 122, NL>>
  /\ toks[1] = <<SLASH>>
  /\ result = <<SP, 90, NL>>

\* C3: base-N round trip.  A character whose code is below B*B, encoded as
\* notes[code div B], notes[code mod B], is decoded by decodeBase12 to itself.
BaseNRoundTrip ==
  (pc = "done" /\ origin = "text" /\ config.type = "base12" /\ Len(text) = 1)
    => /\ text[1] < Len(config.notes) * Len(config.notes)
       /\ inputText = config.notes[(text[1] \div Len(config.notes)) + 1] \o <<SP>>
                        \o config.notes[(text[1] % Len(config.notes)) + 1]
       /\ result = text

BaseNRoundTripWitness ==
  /\ pc = "done"
  /\ origin = "text"
  /\ config.type = "base12"
  /\ Len(config.notes) = 12
  /\ text = <<122>>
  /\ result = <<122>>

\* C4: semantic malformation.  At a pair with an unknown symbol or a value
\* outside 0..25 the walk appends one '?', advances by two tokens and stays
\* on the line, and the tokens after the pair decode as they do alone.
SemanticMalformation ==
  [][ (pc = "walk" /\ i < Len(tokens) /\ BadPair(config.notes, tokens, i))
        => /\ out' = out \o <<QM>>
           /\ i' = i + 2
           /\ pc' = "walk"
           /\ li' = li
           /\ tokens' = tokens
           /\ Walk8(config.notes, tokens, i)
                = <<QM>> \o Walk8(config.notes, SubSeq(tokens, i + 3, Len(tokens)), 0)
    ]_vars

SemanticMalformationWitness ==
  /\ pc = "walk"
  /\ i = 2
  /\ BadPair(config.notes, tokens, 0)
  /\ out # <<>>
  /\ out[Len(out)] = QM
  /\ i + 1 < Len(tokens)
  /\ ~ BadPair(config.notes, tokens, 2)

\* C5: structural malformation.  At a last token that is not '/' and has no
\* partner the walk appends one '?' and leaves the line; the line's output
\* ends in that '?', and every later line decodes to what it decodes to alone.
StructuralMalformation ==
  /\ [][ (pc = "walk" /\ i = Len(tokens) - 1 /\ TokAt(tokens, i) # <<SLASH>>)
           => /\ out' = out \o <<QM>>
              /\ pc' = "line"
              /\ li' = li + 1
       ]_vars
  /\ [](Decode8Done =>
          \A k \in 1 .. Len(lines) :
            Dangles(Tokens8(lines[k]))
              => /\ Len(SplitNL(result)) = Len(lines)
                 /\ SplitNL(result)[k] # <<>>
                 /\ SplitNL(result)[k][Len(SplitNL(result)[k])] = QM
                 /\ \A j \in (k + 1) .. Len(lines) :
                      SplitNL(result)[j] = decodeBase8(config, lines[j]))

StructuralMalformationWitness ==
  /\ Decode8Done
  /\ Len(lines) = 2
  /\ Dangles(Tokens8(lines[1]))
  /\ Len(Tokens8(lines[2])) = 2
  /\ result = <<QM, NL, 72>>

\* C7: line structure.  The output of decodeBase8 has as many newlines as
\* its input, and its k-th line is the decoding of the k-th input line; an
\* empty line decodes to an empty line.
LineStructure ==
  Decode8Done =>
    /\ Count(NL, result) = Count(NL, inputText)
    /\ Len(SplitNL(result)) = Len(SplitNL(inputText))
    /\ \A k \in 1 .. Len(SplitNL(inputText)) :
         /\ SplitNL(result)[k] = decodeBase8(config, SplitNL(inputText)[k])
         /\ Trim(SplitNL(inputText)[k]) = <<>> => SplitNL(result)[k] = <<>>

LineStructureWitness ==
  /\ Decode8Done
  /\ origin = "typed"
  /\ Count(NL, inputText) = 2
  /\ inputText[1] = NL
  /\ result = <<NL, QM, NL>>

\* C10: termination.  Every iteration of the token walk appends one
\* character and either breaks or moves the index forward, by one at a '/'
\* and by two at a pair, never past the end of the tokens; so the walk of
\* a line takes at most as many iterations as the line has tokens.
WalkAdvances ==
  [][ (pc = "walk" /\ i < Len(tokens))
        => /\ Len(out') = Len(out) + 1
           /\ tokens' = tokens
           /\ \/ pc' = "line" /\ li' = li + 1
              \/ /\ pc' = "walk"
                 /\ li' = li
                 /\ i' = IF TokAt(tokens, i) = <<SLASH>> THEN i + 1 ELSE i + 2
                 /\ i' <= Len(tokens)
    ]_vars

WalkAdvancesWitness ==
  /\ Decode8Done
  /\ origin = "typed"
  /\ Len(lines) = 1
  /\ Len(tokens) = 3
  /\ i = 3
  /\ tokens[1] = <<SLASH>>
  /\ Len(result) = 2

\* C6: decodeBase12 gives a line of 2k notes exactly the k characters of its
\* pairs and adds a placeholder only for an unknown symbol or an unmatched
\* last token.
Base12NoSpuriousPlaceholder ==
  (pc = "done" /\ config.type = "base12"
     /\ \A k \in 1 .. Len(Lines12(inputText)) :
          WellFormed12(config.notes, Lines12(inputText)[k]))
    => result = ExpectedLines12(config.notes, Lines12(inputText), 1)

\* C8: every token encodeBase8 returns is a note of the alphabet or one of
\* the two sentinels.
EncodeIndexesValidly ==
  (pc # "encode" /\ origin = "text" /\ config.type = "base8")
    => \A k \in 1 .. Len(toks) :
         toks[k] \in NoteSet(config.notes) \cup { <<SLASH>>, <<NL>> }

\* C9: the encoding of a digit or punctuation mark decodes to placeholders
\* only.
OctalDecodesToPlaceholders ==
  (RoundTrip8Done /\ Len(text) = 1 /\ IsDigitOrPunct(text[1]))
    => \A k \in 1 .. Len(result) : result[k] = QM

====
